---- MODULE Spec2Model ----
(***************************************************************************)
(* Model of generate-thumbnails.js: the batch conversion generateThumbnails *)
(* followed by benchmarkFormats, as chained at the bottom of the script.    *)
(*                                                                          *)
(* File names are sequences of one-character strings, so that path.extname, *)
(* path.parse(..).name, toLowerCase and the output-name template are        *)
(* computed as the code computes them.  An `await` is modelled by a value   *)
(* of pc naming the awaited operation; the operation settling (fulfilled or *)
(* rejected) is one action that also runs the synchronous continuation up   *)
(* to the next await.  `outstanding` counts the file operations that have   *)
(* been issued and have not settled.                                        *)
(***************************************************************************)
EXTENDS Integers, Sequences, FiniteSets, TLC

----------------------------------------------------------------------------
(* Bounds of the model *)

\* at most this many entries (besides the thumb directory) in the input directory
MaxFiles == 2
\* at most this many environment faults (an I/O call rejecting) over a behaviour
MaxFaults == 1
\* the script is run at most this many times in a row
MaxRuns == 2

----------------------------------------------------------------------------
(* State *)

VARIABLES
  inDir,          \* entries of config.inputDir, in readdir order (thumb excluded)
  outExists,      \* config.outputDir exists
  outDir,         \* config.outputDir: file name -> content
  tempFiles,      \* the temp-test.<format> files present in the working directory
  pc,             \* the await the script is suspended at
  outstanding,    \* file operations issued and not settled
  imageFiles,     \* line 39
  fi, si, ki,     \* position of the three nested loops, lines 53, 59, 60
  totalProcessed, \* line 50
  printed,        \* the count printed by line 115, -1 before
  savings,        \* line 136
  exitCode,       \* process exit status
  results,        \* line 156
  bi,             \* position of the loop of line 158
  run,            \* number of the current run of the script
  faults,         \* environment faults injected so far
  log,            \* history: the tasks that finished, with their outcome
  topFault,       \* history: an operation outside the per-task try rejected
  listed,         \* history: the readdir of line 38 was fulfilled
  created,        \* history: temp files benchmarkFormats wrote
  prevOut         \* history: outDir when the previous run ended

vars == << inDir, outExists, outDir, tempFiles, pc, outstanding, imageFiles,
           fi, si, ki, totalProcessed, printed, savings, exitCode, results, bi,
           run, faults, log, topFault, listed, created, prevOut >>

env     == << inDir, listed >>
loopPos == << fi, si, ki >>
bench   == << results, bi, tempFiles, created >>

----------------------------------------------------------------------------
(* config, lines 17-30 *)

sizes ==
  << [width |-> 80,  height |-> 80,  suffix |-> << >>],
     [width |-> 160, height |-> 160, suffix |-> <<"@", "2", "x">>] >>

formats == << <<"j", "p", "g">>, <<"w", "e", "b", "p">>, <<"a", "v", "i", "f">> >>

quality(format) ==
  CASE format = <<"j", "p", "g">>      -> 85
    [] format = <<"w", "e", "b", "p">> -> 80
    [] format = <<"a", "v", "i", "f">> -> 70

----------------------------------------------------------------------------
(* The directory entries the input directory is populated from *)

F_1jpg   == <<"1", ".", "j", "p", "g">>
F_1x2jpg == <<"1", "@", "2", "x", ".", "j", "p", "g">>
F_bWebP  == <<"b", ".", "W", "e", "b", "P">>
F_1jpeg  == <<"1", ".", "j", "p", "e", "g">>
F_ntxt   == <<"n", ".", "t", "x", "t">>
F_dotjpg == <<".", "j", "p", "g">>
F_thumb  == <<"t", "h", "u", "m", "b">>

\* readdir order of the entries
Pool == << F_1jpg, F_1x2jpg, F_bWebP, F_1jpeg, F_ntxt, F_dotjpg >>

\* the entries of Pool that have a recognized extension
RecognizedEntries == { F_1jpg, F_1x2jpg, F_bWebP, F_1jpeg }

Range(s) == { s[i] : i \in 1..Len(s) }

----------------------------------------------------------------------------
(* path and string helpers *)

LowerChar(c) ==
  CASE c = "W" -> "w"
    [] c = "P" -> "p"
    [] c = "J" -> "j"
    [] c = "G" -> "g"
    [] OTHER   -> c

toLowerCase(s) == [i \in 1..Len(s) |-> LowerChar(s[i])]

\* index of the last "." of s, 0 when there is none
LastDot(s) ==
  LET D == { i \in 1..Len(s) : s[i] = "." }
  IN  IF D = {} THEN 0 ELSE CHOOSE i \in D : \A j \in D : j <= i

\* path.extname: from the last "." on; empty when there is no "." or the
\* only "." is the first character of the name
extname(s) ==
  IF LastDot(s) <= 1 THEN << >> ELSE SubSeq(s, LastDot(s), Len(s))

\* path.parse(s).name: the name without its extension
parseName(s) == SubSeq(s, 1, Len(s) - Len(extname(s)))

\* the filter without toLowerCase
IsImageCaseSensitive(file) ==
  extname(file) \in { <<".", "j", "p", "g">>, <<".", "j", "p", "e", "g">>,
                      <<".", "p", "n", "g">>, <<".", "w", "e", "b", "p">> }

\* the filter of lines 39-42
IsImage(file) ==
  toLowerCase(extname(file)) \in
     { <<".", "j", "p", "g">>, <<".", "j", "p", "e", "g">>,
       <<".", "p", "n", "g">>, <<".", "w", "e", "b", "p">> }

RECURSIVE Filter(_)
Filter(s) ==
  IF s = << >> THEN << >>
  ELSE IF IsImage(Head(s)) THEN <<Head(s)>> \o Filter(Tail(s))
       ELSE Filter(Tail(s))

\* line 61
outputFilename(file, size, format) ==
  parseName(file) \o size.suffix \o <<".">> \o format

\* line 160
tempPath(format) ==
  <<"t", "e", "m", "p", "-", "t", "e", "s", "t", ".">> \o format

----------------------------------------------------------------------------
(* The external collaborators: sharp and the file system *)

\* the source image sharp cannot decode: every conversion of it rejects
Corrupt(file) == file = F_1jpeg

\* an encoder that embeds run-dependent metadata in its output
EncodeStamped(file, size, format) ==
  [src |-> file, w |-> size.width, h |-> size.height,
   fmt |-> format, q |-> quality(format) + run]

\* the bytes sharp produces, lines 65-93: a function of the source image,
\* the target size, the format and its quality, and of nothing else
Encode(file, size, format) ==
  [src |-> file, w |-> size.width, h |-> size.height,
   fmt |-> format, q |-> quality(format)]

\* content of a file that is in the output directory before the first run
Stale == [src |-> << >>, w |-> 0, h |-> 0, fmt |-> << >>, q |-> 0]

\* a symbolic link whose target is missing: stat of it rejects
Dangling == [src |-> << >>, w |-> 0, h |-> 0, fmt |-> << >>, q |-> -1]
DanglingIn(dir) == { n \in DOMAIN dir : dir[n] = Dangling }

\* stats.size of an input file and of a file of the output directory
InputBytes(file) == Len(file)
ThumbBytes(c) == IF c.w = 160 THEN 2 ELSE 1

\* a directory (name -> content) after writing content c under name n
WriteFile(dir, n, c) ==
  [m \in (DOMAIN dir) \cup {n} |-> IF m = n THEN c ELSE dir[m]]

RECURSIVE SumInput(_)
SumInput(s) == IF s = << >> THEN 0 ELSE InputBytes(Head(s)) + SumInput(Tail(s))

RECURSIVE SumThumb(_, _)
SumThumb(dir, names) ==
  IF names = {} THEN 0
  ELSE LET n == CHOOSE x \in names : TRUE
       IN  ThumbBytes(dir[n]) + SumThumb(dir, names \ {n})

----------------------------------------------------------------------------
(* Initial states *)

\* the sub-sequences of Pool with at most MaxFiles entries
RECURSIVE SubSeqs(_)
SubSeqs(s) ==
  IF s = << >> THEN { << >> }
  ELSE LET R == SubSeqs(Tail(s))
       IN  R \cup { <<Head(s)>> \o r : r \in R }

Listings == { l \in SubSeqs(Pool) : Len(l) <= MaxFiles }

\* the output directory before the first run: absent, or holding a thumbnail
\* of an earlier run and an unrelated file, or holding a dangling link
InitialOut ==
  { [present |-> FALSE, dir |-> << >>],
    [present |-> TRUE,
     dir |-> [n \in { outputFilename(F_1jpg, sizes[1], formats[1]), F_ntxt }
                |-> Stale]],
    [present |-> TRUE, dir |-> [n \in { F_thumb } |-> Dangling]] }

Locals ==
  /\ imageFiles = << >>
  /\ fi = 1 /\ si = 1 /\ ki = 1
  /\ totalProcessed = 0
  /\ printed = -1
  /\ savings = "none"
  /\ exitCode = 0
  /\ results = << >>
  /\ bi = 1
  /\ outstanding = 0
  /\ log = << >>
  /\ topFault = FALSE
  /\ listed = FALSE
  /\ created = {}

Init ==
  /\ inDir \in Listings
  /\ \E o \in InitialOut : outExists = o.present /\ outDir = o.dir
  /\ tempFiles = {}
  /\ pc = "start"
  /\ run = 1
  /\ faults = 0
  /\ prevOut = << >>
  /\ Locals

----------------------------------------------------------------------------
(* generateThumbnails, lines 32-143 *)

\* the task the loops are at: lines 53-62
curFile   == imageFiles[fi]
curSize   == sizes[si]
curFormat == formats[ki]
outputPath == outputFilename(curFile, curSize, curFormat)

\* the innermost loop ending one format early
NextPosShort ==
  IF ki < Len(formats) - 1 THEN << fi, si, ki + 1 >>
  ELSE IF si < Len(sizes) THEN << fi, si + 1, 1 >>
  ELSE << fi + 1, 1, 1 >>

\* the loop position after the current task: lines 53, 59, 60
NextPos ==
  IF ki < Len(formats) THEN << fi, si, ki + 1 >>
  ELSE IF si < Len(sizes) THEN << fi, si + 1, 1 >>
  ELSE << fi + 1, 1, 1 >>

\* the catch of lines 139-142: the rejected operation has settled, the error
\* is logged and the process exits with status 1
TopCatch ==
  /\ pc' = "exited"
  /\ exitCode' = 1
  /\ outstanding' = outstanding - 1

\* the environment makes an operation outside the per-task try reject
TopLevelFault ==
  /\ faults < MaxFaults
  /\ faults' = faults + 1
  /\ topFault' = TRUE
  /\ TopCatch

\* the loops going on while the operation before is still pending
ContinueNoAwait(files, pos) ==
  /\ fi' = pos[1] /\ si' = pos[2] /\ ki' = pos[3]
  /\ IF pos[1] <= Len(files)
       THEN /\ pc' = "toFile"
            /\ outstanding' = outstanding + 1
            /\ printed' = printed
       ELSE /\ pc' = "origStats"
            /\ outstanding' = Len(files)
            /\ printed' = totalProcessed'

\* the synchronous code from loop position pos up to the next await: the
\* toFile of the task at pos (line 95), or past the loops the summary of
\* lines 111-116 and the stat calls Promise.all starts together (line 119)
Continue(files, pos) ==
  /\ fi' = pos[1] /\ si' = pos[2] /\ ki' = pos[3]
  /\ IF pos[1] <= Len(files)
       THEN /\ pc' = "toFile"
            /\ outstanding' = 1
            /\ printed' = printed
       ELSE /\ pc' = "origStats"
            /\ outstanding' = Len(files)
            /\ printed' = totalProcessed'

\* line 205: the call runs up to the await of line 35
Start ==
  /\ pc = "start"
  /\ pc' = "ensureDir"
  /\ outstanding' = 1
  /\ UNCHANGED << env, outExists, outDir, imageFiles, loopPos, totalProcessed,
                  printed, savings, exitCode, bench, run, faults, log,
                  topFault, prevOut >>

\* line 35 fulfilled; readdir of line 38 issued
EnsureDirOk ==
  /\ pc = "ensureDir"
  /\ outExists' = TRUE
  /\ pc' = "readdir"
  /\ UNCHANGED << env, outDir, outstanding, imageFiles, loopPos, totalProcessed,
                  printed, savings, exitCode, bench, run, faults, log,
                  topFault, prevOut >>

EnsureDirFail ==
  /\ pc = "ensureDir"
  /\ TopLevelFault
  /\ UNCHANGED << env, outExists, outDir, imageFiles, loopPos, totalProcessed,
                  printed, savings, bench, run, log, prevOut >>

\* line 38 fulfilled: the listing holds the entries of the input directory
\* and the output directory thumb, which lies in it; lines 39-62
ReaddirOk ==
  /\ pc = "readdir"
  /\ imageFiles' = Filter(inDir \o << F_thumb >>)
  /\ totalProcessed' = 0
  /\ Continue(imageFiles', << 1, 1, 1 >>)
  /\ listed' = TRUE
  /\ UNCHANGED << inDir, outExists, outDir, savings, exitCode, bench, run,
                  faults, log, topFault, prevOut >>

ReaddirFail ==
  /\ pc = "readdir"
  /\ TopLevelFault
  /\ UNCHANGED << env, outExists, outDir, imageFiles, loopPos, totalProcessed,
                  printed, savings, bench, run, log, prevOut >>

\* line 95 fulfilled: the thumbnail is written; stat of line 98 issued
ToFileOk ==
  /\ pc = "toFile"
  /\ ~Corrupt(curFile)
  /\ outDir' = WriteFile(outDir, outputPath, Encode(curFile, curSize, curFormat))
  /\ pc' = "stat"
  /\ UNCHANGED << env, outExists, outstanding, imageFiles, loopPos,
                  totalProcessed, printed, savings, exitCode, bench, run,
                  faults, log, topFault, prevOut >>

\* a catch that throws the error on to the catch of line 139
TaskCatchRethrow(res) ==
  /\ totalProcessed' = totalProcessed
  /\ log' = Append(log, [file |-> curFile, size |-> si, format |-> ki, res |-> res])
  /\ TopCatch
  /\ UNCHANGED << loopPos, printed >>

\* a catch that counts the failed task as generated
TaskCatchCounting(res) ==
  /\ totalProcessed' = totalProcessed + 1
  /\ log' = Append(log, [file |-> curFile, size |-> si, format |-> ki, res |-> res])
  /\ exitCode' = exitCode
  /\ Continue(imageFiles, NextPos)

\* the catch of lines 104-106: the failure is logged and the loops go on
TaskCatch(res) ==
  /\ totalProcessed' = totalProcessed
  /\ log' = Append(log, [file |-> curFile, size |-> si, format |-> ki, res |-> res])
  /\ exitCode' = exitCode
  /\ Continue(imageFiles, NextPos)

\* line 95 rejected: the source cannot be decoded
ToFileCorrupt ==
  /\ pc = "toFile"
  /\ Corrupt(curFile)
  /\ TaskCatch("toFile")
  /\ UNCHANGED << env, outExists, outDir, imageFiles, savings, bench, run,
                  faults, topFault, prevOut >>

\* line 95 rejected: the environment makes the encode or the write fail
ToFileFail ==
  /\ pc = "toFile"
  /\ ~Corrupt(curFile)
  /\ faults < MaxFaults
  /\ faults' = faults + 1
  /\ TaskCatch("toFile")
  /\ UNCHANGED << env, outExists, outDir, imageFiles, savings, bench, run,
                  topFault, prevOut >>

\* line 98 fulfilled; lines 99-102, then the next task
StatOk ==
  /\ pc = "stat"
  /\ totalProcessed' = totalProcessed + 1
  /\ log' = Append(log, [file |-> curFile, size |-> si, format |-> ki, res |-> "ok"])
  /\ Continue(imageFiles, NextPos)
  /\ UNCHANGED << env, outExists, outDir, imageFiles, savings, exitCode, bench,
                  run, faults, topFault, prevOut >>

\* line 98 rejected
StatFail ==
  /\ pc = "stat"
  /\ faults < MaxFaults
  /\ faults' = faults + 1
  /\ TaskCatch("stat")
  /\ UNCHANGED << env, outExists, outDir, imageFiles, savings, bench, run,
                  topFault, prevOut >>

----------------------------------------------------------------------------
(* the reporting step, lines 119-137 *)

\* one of the stat calls of line 121 fulfilled
OrigStatOk ==
  /\ pc = "origStats"
  /\ outstanding > 0
  /\ outstanding' = outstanding - 1
  /\ UNCHANGED << env, outExists, outDir, pc, imageFiles, loopPos,
                  totalProcessed, printed, savings, exitCode, bench, run,
                  faults, log, topFault, prevOut >>

\* one of them rejected: Promise.all rejects at once, the others still pending
OrigStatFail ==
  /\ pc = "origStats"
  /\ outstanding > 0
  /\ TopLevelFault
  /\ UNCHANGED << env, outExists, outDir, imageFiles, loopPos, totalProcessed,
                  printed, savings, bench, run, log, prevOut >>

\* Promise.all of line 119 fulfilled; readdir of line 127 issued
OrigStatsAll ==
  /\ pc = "origStats"
  /\ outstanding = 0
  /\ pc' = "thumbReaddir"
  /\ outstanding' = 1
  /\ UNCHANGED << env, outExists, outDir, imageFiles, loopPos, totalProcessed,
                  printed, savings, exitCode, bench, run, faults, log,
                  topFault, prevOut >>

\* line 127 fulfilled; the stat calls of line 130 start together
ThumbReaddirOk ==
  /\ pc = "thumbReaddir"
  /\ pc' = "thumbStats"
  /\ outstanding' = Cardinality(DOMAIN outDir)
  /\ UNCHANGED << env, outExists, outDir, imageFiles, loopPos, totalProcessed,
                  printed, savings, exitCode, bench, run, faults, log,
                  topFault, prevOut >>

ThumbReaddirFail ==
  /\ pc = "thumbReaddir"
  /\ TopLevelFault
  /\ UNCHANGED << env, outExists, outDir, imageFiles, loopPos, totalProcessed,
                  printed, savings, bench, run, log, prevOut >>

ThumbStatOk ==
  /\ pc = "thumbStats"
  /\ outstanding > Cardinality(DanglingIn(outDir))
  /\ outstanding' = outstanding - 1
  /\ UNCHANGED << env, outExists, outDir, pc, imageFiles, loopPos,
                  totalProcessed, printed, savings, exitCode, bench, run,
                  faults, log, topFault, prevOut >>

ThumbStatFail ==
  /\ pc = "thumbStats"
  /\ outstanding > 0
  /\ TopLevelFault
  /\ UNCHANGED << env, outExists, outDir, imageFiles, loopPos, totalProcessed,
                  printed, savings, bench, run, log, prevOut >>

\* the stat of a dangling link rejects: Promise.all of line 128 rejects
ThumbStatDangling ==
  /\ pc = "thumbStats"
  /\ DanglingIn(outDir) # {}
  /\ topFault' = TRUE
  /\ TopCatch
  /\ UNCHANGED << env, outExists, outDir, imageFiles, loopPos, totalProcessed,
                  printed, savings, bench, run, faults, log, prevOut >>

\* a division that raises on a zero divisor
SavingsChecked(original, thumb) ==
  IF original = 0 THEN "throw" ELSE "finite"

\* line 136: what (original - thumb) / original * 100 evaluates to.  Division
\* of JavaScript numbers never throws: 0/0 is NaN, x/0 is an infinity, and
\* toFixed formats all three
Savings(original, thumb) ==
  IF original # 0 THEN "finite"
  ELSE IF original - thumb = 0 THEN "NaN"
  ELSE IF original - thumb < 0 THEN "-Infinity"
  ELSE "Infinity"

\* Promise.all of line 128 fulfilled; lines 134-137, and the function returns
Report ==
  /\ pc = "thumbStats"
  /\ outstanding = 0
  /\ LET s == Savings(SumInput(imageFiles), SumThumb(outDir, DOMAIN outDir))
     IN  IF s = "throw"
           THEN /\ pc' = "exited"
                /\ exitCode' = 1
                /\ savings' = savings
           ELSE /\ pc' = "resolved"
                /\ exitCode' = exitCode
                /\ savings' = s
  /\ UNCHANGED << env, outExists, outDir, outstanding, imageFiles, loopPos,
                  totalProcessed, printed, bench, run, faults, log, topFault,
                  prevOut >>

----------------------------------------------------------------------------
(* benchmarkFormats, lines 146-199 *)

testImage == F_1jpg

\* the synchronous code from position i of the loop of line 158 up to the
\* next await: the toFile of line 177, or past the loop console.table
BenchContinue(i) ==
  /\ bi' = i
  /\ IF i <= Len(formats)
       THEN pc' = "bToFile" /\ outstanding' = 1
       ELSE pc' = "finished" /\ outstanding' = 0

\* the catch of lines 189-195: an error row, then the next format
BenchCatch ==
  /\ results' = Append(results, [format |-> formats[bi], size |-> "Error"])
  /\ BenchContinue(bi + 1)

BenchFault ==
  /\ faults < MaxFaults
  /\ faults' = faults + 1
  /\ BenchCatch

\* line 206: generateThumbnails resolved, benchmarkFormats runs up to line 149
BenchStart ==
  /\ pc = "resolved"
  /\ pc' = "pathExists"
  /\ outstanding' = 1
  /\ UNCHANGED << env, outExists, outDir, imageFiles, loopPos, totalProcessed,
                  printed, savings, exitCode, bench, run, faults, log,
                  topFault, prevOut >>

\* lines 149-152: the test image is absent
PathExistsNo ==
  /\ pc = "pathExists"
  /\ testImage \notin Range(inDir)
  /\ pc' = "finished"
  /\ outstanding' = 0
  /\ UNCHANGED << env, outExists, outDir, imageFiles, loopPos, totalProcessed,
                  printed, savings, exitCode, bench, run, faults, log,
                  topFault, prevOut >>

\* lines 154-177: the test image is present
PathExistsYes ==
  /\ pc = "pathExists"
  /\ testImage \in Range(inDir)
  /\ results' = << >>
  /\ BenchContinue(1)
  /\ UNCHANGED << env, outExists, outDir, imageFiles, loopPos, totalProcessed,
                  printed, savings, exitCode, tempFiles, created, run, faults,
                  log, topFault, prevOut >>

\* line 177 fulfilled; stat of line 178 issued
BToFileOk ==
  /\ pc = "bToFile"
  /\ tempFiles' = tempFiles \cup { tempPath(formats[bi]) }
  /\ created' = created \cup { tempPath(formats[bi]) }
  /\ pc' = "bStat"
  /\ UNCHANGED << env, outExists, outDir, outstanding, imageFiles, loopPos,
                  totalProcessed, printed, savings, exitCode, results, bi, run,
                  faults, log, topFault, prevOut >>

\* line 177 rejected
BToFileFail ==
  /\ pc = "bToFile"
  /\ BenchFault
  /\ UNCHANGED << env, outExists, outDir, imageFiles, loopPos, totalProcessed,
                  printed, savings, exitCode, tempFiles, created, run, log,
                  topFault, prevOut >>

\* line 178 fulfilled; lines 179-185, remove of line 187 issued
BStatOk ==
  /\ pc = "bStat"
  /\ results' = Append(results, [format |-> formats[bi], size |-> "KB"])
  /\ pc' = "bRemove"
  /\ UNCHANGED << env, outExists, outDir, outstanding, imageFiles, loopPos,
                  totalProcessed, printed, savings, exitCode, bi, tempFiles,
                  created, run, faults, log, topFault, prevOut >>

\* line 178 rejected
BStatFail ==
  /\ pc = "bStat"
  /\ BenchFault
  /\ UNCHANGED << env, outExists, outDir, imageFiles, loopPos, totalProcessed,
                  printed, savings, exitCode, tempFiles, created, run, log,
                  topFault, prevOut >>

\* line 187 fulfilled: the temporary file is gone; the next format
BRemoveOk ==
  /\ pc = "bRemove"
  /\ tempFiles' = tempFiles \ { tempPath(formats[bi]) }
  /\ BenchContinue(bi + 1)
  /\ UNCHANGED << env, outExists, outDir, imageFiles, loopPos, totalProcessed,
                  printed, savings, exitCode, results, created, run, faults,
                  log, topFault, prevOut >>

\* line 187 rejected, inside the try of line 162
BRemoveFail ==
  /\ pc = "bRemove"
  /\ BenchFault
  /\ UNCHANGED << env, outExists, outDir, imageFiles, loopPos, totalProcessed,
                  printed, savings, exitCode, tempFiles, created, run, log,
                  topFault, prevOut >>

----------------------------------------------------------------------------
(* The script is run again on the directories the previous run left *)

Rerun ==
  /\ pc \in { "finished", "exited" }
  /\ run < MaxRuns
  /\ run' = run + 1
  /\ prevOut' = outDir
  /\ pc' = "start"
  /\ imageFiles' = << >>
  /\ fi' = 1 /\ si' = 1 /\ ki' = 1
  /\ totalProcessed' = 0
  /\ printed' = -1
  /\ savings' = "none"
  /\ exitCode' = 0
  /\ results' = << >>
  /\ bi' = 1
  /\ outstanding' = 0
  /\ log' = << >>
  /\ topFault' = FALSE
  /\ listed' = FALSE
  /\ created' = {}
  /\ UNCHANGED << inDir, outExists, outDir, tempFiles, faults >>

----------------------------------------------------------------------------
(* Specifications *)

\* the steps in which every operation is fulfilled, or rejects because of
\* what the directories hold
Regular ==
  \/ Start
  \/ EnsureDirOk
  \/ ReaddirOk
  \/ ToFileOk
  \/ ToFileCorrupt
  \/ StatOk
  \/ OrigStatOk
  \/ OrigStatsAll
  \/ ThumbReaddirOk
  \/ ThumbStatOk
  \/ ThumbStatDangling
  \/ Report
  \/ BenchStart
  \/ PathExistsNo
  \/ PathExistsYes
  \/ BToFileOk
  \/ BStatOk
  \/ BRemoveOk

\* the steps in which the environment makes an operation reject
Faulty ==
  \/ EnsureDirFail
  \/ ReaddirFail
  \/ ToFileFail
  \/ StatFail
  \/ OrigStatFail
  \/ ThumbReaddirFail
  \/ ThumbStatFail
  \/ BToFileFail
  \/ BStatFail
  \/ BRemoveFail

\* one run of the script, line 201-208
Next == Regular \/ Faulty

Spec == Init /\ [][Next]_vars

\* runs of the script in a row, no operation failing for a transient reason
NextRerun == Regular \/ Rerun

SpecRerun == Init /\ [][NextRerun]_vars

----------------------------------------------------------------------------
(* Vocabulary of the properties *)

\* the images of the input directory, by the table of recognized entries
ExpectedImages == SelectSeq(inDir, LAMBDA f : f \in RecognizedEntries)

PerFile == Len(sizes) * Len(formats)
NumTasks(files) == Len(files) * PerFile

\* the n-th task of the matrix file x size x format, in iteration order
TaskAt(files, n) ==
  [file   |-> files[((n - 1) \div PerFile) + 1],
   size   |-> (((n - 1) % PerFile) \div Len(formats)) + 1,
   format |-> ((n - 1) % Len(formats)) + 1]

TaskOf(e) == [file |-> e.file, size |-> e.size, format |-> e.format]
NameOf(t) == outputFilename(t.file, sizes[t.size], formats[t.format])

Failed == { i \in 1..Len(log) : log[i].res # "ok" }
Succeeded == { i \in 1..Len(log) : log[i].res = "ok" }

InLoop == pc \in { "toFile", "stat" }
\* the loops of lines 53-109 have been left
LoopLeft == printed # -1
BenchPcs == { "pathExists", "bToFile", "bStat", "bRemove", "finished" }

----------------------------------------------------------------------------
(* C1 *)

\* C1: once the directory listing has succeeded, the tasks that have finished
\* are the first tasks of the matrix (recognized file x size x format), each
\* once and in iteration order, whichever of them failed; and when the run is
\* not inside the loops any more, all of them have finished.
C1_EveryTaskAttemptedOnce ==
  listed =>
    /\ Len(log) <= NumTasks(ExpectedImages)
    /\ \A n \in 1..Len(log) : TaskOf(log[n]) = TaskAt(ExpectedImages, n)
    /\ ~InLoop => Len(log) = NumTasks(ExpectedImages)

\* a finished run of two files in which a stat failed, later tasks succeeded
\* and the tasks of an image that cannot be decoded failed
C1_Witness ==
  /\ pc = "resolved"
  /\ Len(log) = 2 * PerFile
  /\ \E i \in Failed : log[i].res = "toFile"
  /\ \E i \in Failed : \E j \in Succeeded : log[i].res = "stat" /\ i < j

----------------------------------------------------------------------------
(* C2 *)

\* C2: after a batch run in which no task failed, every entry of the input
\* directory with a recognized extension has |sizes| x |formats| tasks in the
\* log, their output names <basename><suffix>.<format> are that many distinct
\* names, and each of the names is a file of the output directory; the output
\* directory holds nothing else that it did not hold before.
C2_OutputsPerFile ==
  (LoopLeft /\ Failed = {}) =>
    /\ \A f \in Range(inDir) \cap RecognizedEntries :
         LET N == { outputFilename(f, sizes[s], formats[k]) :
                      s \in 1..Len(sizes), k \in 1..Len(formats) }
         IN  /\ Cardinality(N) = PerFile
             /\ N \subseteq DOMAIN outDir
             /\ Cardinality({ i \in Succeeded : log[i].file = f }) = PerFile
    /\ \A n \in DOMAIN outDir :
         \/ outDir[n] \in { Stale, Dangling }
         \/ \E i \in Succeeded : NameOf(TaskOf(log[i])) = n

\* a run without failure over an upper-case extension and a second image
C2_Witness ==
  /\ pc = "resolved"
  /\ Failed = {}
  /\ Len(log) = 2 * PerFile
  /\ F_bWebP \in Range(imageFiles)

----------------------------------------------------------------------------
(* C3 *)

\* C3: within one run the map from task to output path is injective, and
\* the file a task has written still holds what this task wrote.
C3_PathsDisjoint ==
  listed =>
    /\ \A m, n \in 1..NumTasks(imageFiles) :
         m # n => NameOf(TaskAt(imageFiles, m)) # NameOf(TaskAt(imageFiles, n))
    /\ \A i \in 1..Len(log) :
         log[i].res # "toFile" =>
           LET c == outDir[NameOf(TaskOf(log[i]))]
           IN  c.src = log[i].file /\ c.w = sizes[log[i].size].width

----------------------------------------------------------------------------
(* C4 *)

C4_State ==
  /\ exitCode \in { 0, 1 }
  /\ exitCode = 1 <=> topFault
  /\ pc = "exited" <=> exitCode = 1

C4_Step ==
  topFault' => /\ log' = log
               /\ outDir' = outDir
               /\ pc' = "exited"

\* C4: the exit status is 1 exactly when an operation outside the per-task
\* try has rejected, whatever number of tasks failed; and the step in which
\* that happens, and every later one, attempts no task and writes no file.
C4_ExitStatus == [] C4_State /\ [][C4_Step]_vars

\* a run with a failed task that then ends with status 1 in the reporting step
C4_Witness ==
  /\ pc = "exited"
  /\ topFault
  /\ \E i \in Failed : log[i].res = "toFile"
  /\ Succeeded # {}

----------------------------------------------------------------------------
(* C5 *)

----------------------------------------------------------------------------
(* C6, C7 *)

\* C6: when benchmarkFormats has run with the test image present, the results
\* hold exactly one row per configured format, in configuration order.
C6_OneRowPerFormat ==
  (pc = "finished" /\ testImage \in Range(inDir)) =>
    /\ Len(results) = Len(formats)
    /\ \A i \in 1..Len(results) : results[i].format = formats[i]

\* C7: when benchmarkFormats has returned, none of the temporary files it
\* wrote is left.
C7_TempFilesRemoved ==
  pc = "finished" => created \cap tempFiles = {}

----------------------------------------------------------------------------
(* C8 *)

\* C8: when the batch step of a second or later run on the unchanged input
\* directory has ended, the output directory holds the files it held at the
\* end of the run before, with the same content.
C8_RerunIdempotent ==
  (run > 1 /\ LoopLeft) => outDir = prevOut

\* the end of a second run in which a thumbnail written by one image was
\* overwritten by the thumbnail of another one
C8_Witness ==
  /\ run = 2
  /\ pc = "finished"
  /\ imageFiles = << F_1jpg, F_1x2jpg >>
  /\ outDir = prevOut
  /\ Cardinality(DOMAIN outDir) >= PerFile

----------------------------------------------------------------------------
(* C9 *)

GenPcs == { "ensureDir", "readdir", "toFile", "stat", "origStats",
            "thumbReaddir", "thumbStats" }

\* the number of the task the loops are at
CurTask == (fi - 1) * PerFile + (si - 1) * Len(formats) + ki

Sequenced ==
  /\ InLoop => Len(log) = CurTask - 1
  /\ pc \in { "origStats", "thumbReaddir", "thumbStats" } =>
       Len(log) = NumTasks(imageFiles)

\* C9 as claimed: at every point of generateThumbnails at most one file
\* operation is outstanding, a task starts when the tasks before it have
\* finished, and the reporting step starts when all tasks have finished.
C9_Original ==
  /\ pc \in GenPcs => outstanding <= 1
  /\ Sequenced

\* C9 amended: from the start of generateThumbnails to the end of the loops,
\* and during the readdir of the output directory, exactly one file
\* operation is outstanding; a task starts when the tasks before it have
\* finished, and the reporting step starts when all tasks have finished; in
\* the reporting step the stat calls of one Promise.all are outstanding
\* together, at most one per image, then at most one per entry of the output
\* directory.
C9_Sequential ==
  /\ pc \in { "ensureDir", "readdir", "toFile", "stat", "thumbReaddir" } =>
       outstanding = 1
  /\ pc = "origStats" => outstanding \in 0..Len(imageFiles)
  /\ pc = "thumbStats" => outstanding \in 0..Cardinality(DOMAIN outDir)
  /\ Sequenced

\* the reporting step with the stat calls of two images outstanding, after a
\* loop of two files
C9_Witness ==
  /\ pc = "origStats"
  /\ outstanding = 2
  /\ Len(log) = 2 * PerFile

----------------------------------------------------------------------------
(* C10 *)

C10_State ==
  /\ totalProcessed = Cardinality(Succeeded)
  /\ LoopLeft =>
       /\ printed = totalProcessed
       /\ printed <= NumTasks(ExpectedImages)
       /\ printed = NumTasks(ExpectedImages) <=> Failed = {}

C10_Step ==
  /\ totalProcessed' >= totalProcessed
  /\ (Len(log') > Len(log) /\ log'[Len(log')].res # "ok") =>
       totalProcessed' = totalProcessed

\* C10: totalProcessed is the number of finished tasks whose toFile and stat
\* both succeeded; no step decreases it and a failed task leaves it as it is;
\* the count printed at the end is at most files x sizes x formats, and is
\* equal to it exactly when no task failed.
C10_Counter == [] C10_State /\ [][C10_Step]_vars

\* a finished run of two files that counted some tasks and not a failed one
C10_Witness ==
  /\ pc = "resolved"
  /\ Len(log) = 2 * PerFile
  /\ \E i \in Failed : log[i].res = "stat"
  /\ printed = 2 * PerFile - 1

====
